---- MODULE Spec2Model ----
(***************************************************************************)
(* Model of the Terminal component of frontend/src/Terminal.jsx: the       *)
(* WebSocket client that receives the narration stream, deduplicates and   *)
(* paces it, keeps the transcript, and sends the user's commands.          *)
(*                                                                         *)
(* A JavaScript string is a sequence of text fragments ("tokens"); every   *)
(* token stands for a fixed sequence of UTF-16 code units (Codes).  The    *)
(* markers the code searches for with String.includes are whole tokens,    *)
(* and no payload of the model splits a marker over two tokens, so         *)
(* includes is token membership.  hashString and .length work on the code  *)
(* units.                                                                  *)
(*                                                                         *)
(* The handlers installed by connectToBackend close over the values the    *)
(* component's state had in the render that called connectToBackend; each  *)
(* socket record keeps those captured values in its field cap.             *)
(***************************************************************************)
EXTENDS Integers, Sequences, FiniteSets, TLC

\* ------------------------------------------------------------------ bounds
MaxSockets == 2      \* WebSocket objects created in one behaviour
MaxMsgs == 2         \* message events delivered in one behaviour of Spec
StreamMsgs == 3      \* message events delivered in one behaviour of SpecStream
MaxSends == 1        \* input messages put on a socket in one behaviour
StartTime == 1000    \* Date.now() when the component is constructed (ms)
MaxLap == 104        \* lap texts "Lap 1" .. "Lap MaxLap" of the fill model
FillStart == 99      \* lap texts already received when the fill model starts
FillMsgs == 3        \* message events of the fill model after its start
Deltas == {10, 50}   \* ms between a message event and the previous one
SlowDeltas == {50}   \* the same in the connection model, which does not pace
MaxHashLen == 2      \* text fragments in a payload of the hash model
HashMsgs == 2        \* message events delivered in one behaviour of SpecHash

\* ------------------------------------------------------- program constants
MinInterval == 50    \* pacing gate
WindowCap == 100     \* size above which the dedup window is trimmed
TrimKeep == 50       \* entries kept by a trim
ClearMinLen == 100   \* transcript length above which the init banner clears
RocketCount == 35    \* rockets in the banner line

\* ----------------------------------------------------------------- strings
RocketLine == [i \in 1..(2 * RocketCount) |-> IF i % 2 = 1 THEN 55357 ELSE 56960]

Digits(k) ==
    IF k < 10 THEN <<48 + k>>
    ELSE IF k < 100 THEN <<48 + (k \div 10), 48 + (k % 10)>>
    ELSE <<48 + (k \div 100), 48 + ((k \div 10) % 10), 48 + (k % 10)>>

LapTok(k) == ToString(k)

MarkerCodes ==
  "Aa" :> <<65, 97>> @@
  "BB" :> <<66, 66>> @@
  "<trophy>" :> <<55356, 57286>> @@
  " " :> <<32>> @@
  "VICTORY!" :> <<86, 73, 67, 84, 79, 82, 89, 33>> @@
  "WINS!" :> <<87, 73, 78, 83, 33>> @@
  "Race another championship? (y/n):" :> <<82, 97, 99, 101, 32, 97, 110, 111, 116, 104, 101, 114, 32, 99, 104, 97, 109, 112, 105, 111, 110, 115, 104, 105, 112, 63, 32, 40, 121, 47, 110, 41, 58>> @@
  "<nl><nl><flag> " :> <<10, 10, 55356, 57281, 32>> @@
  "F1 PROFESSIONAL CHAMPIONSHIP RACE - LIGHTS OUT!" :> <<70, 49, 32, 80, 82, 79, 70, 69, 83, 83, 73, 79, 78, 65, 76, 32, 67, 72, 65, 77, 80, 73, 79, 78, 83, 72, 73, 80, 32, 82, 65, 67, 69, 32, 45, 32, 76, 73, 71, 72, 84, 83, 32, 79, 85, 84, 33>> @@
  "<rocket>x35" :> RocketLine @@
  "<rocket> Initializing F1 Professional Simulator..." :> <<55357, 56960, 32, 73, 110, 105, 116, 105, 97, 108, 105, 122, 105, 110, 103, 32, 70, 49, 32, 80, 114, 111, 102, 101, 115, 115, 105, 111, 110, 97, 108, 32, 83, 105, 109, 117, 108, 97, 116, 111, 114, 46, 46, 46>> @@
  "Available F1 Circuits:" :> <<65, 118, 97, 105, 108, 97, 98, 108, 101, 32, 70, 49, 32, 67, 105, 114, 99, 117, 105, 116, 115, 58>> @@
  "<flag> TRACK & WEATHER SELECTION" :> <<55356, 57281, 32, 84, 82, 65, 67, 75, 32, 38, 32, 87, 69, 65, 84, 72, 69, 82, 32, 83, 69, 76, 69, 67, 84, 73, 79, 78>> @@
  "<x> Not connected to backend<nl>" :> <<10060, 32, 78, 111, 116, 32, 99, 111, 110, 110, 101, 99, 116, 101, 100, 32, 116, 111, 32, 98, 97, 99, 107, 101, 110, 100, 10>> @@
  "<x> WebSocket connection not ready<nl>" :> <<10060, 32, 87, 101, 98, 83, 111, 99, 107, 101, 116, 32, 99, 111, 110, 110, 101, 99, 116, 105, 111, 110, 32, 110, 111, 116, 32, 114, 101, 97, 100, 121, 10>> @@
  "> " :> <<62, 32>> @@
  "<nl>" :> <<10>> @@
  "1" :> <<49>> @@
  "y" :> <<121>> @@
  "Lap " :> <<76, 97, 112, 32>> @@
  "null" :> <<110, 117, 108, 108>> @@
  "{type:output}" :> <<123, 34, 116, 121, 112, 101, 34, 58, 34, 111, 117, 116, 112, 117, 116, 34, 125>> @@
  "{type:output,data:5}" :> <<123, 34, 116, 121, 112, 101, 34, 58, 34, 111, 117, 116, 112, 117, 116, 34, 44, 34, 100, 97, 116, 97, 34, 58, 53, 125>> @@
  "{type:output,dauB:5}" :> <<123, 34, 116, 121, 112, 101, 34, 58, 34, 111, 117, 116, 112, 117, 116, 34, 44, 34, 100, 97, 117, 66, 34, 58, 53, 125>>

\* The lap numbers are tokens too; "1" is both the lap number and the input.
Codes ==
    [t \in {LapTok(k) : k \in 1..MaxLap} |->
        Digits(CHOOSE k \in 1..MaxLap : LapTok(k) = t)] @@ MarkerCodes

TokLen == [t \in DOMAIN Codes |-> Len(Codes[t])]

\* str.length: the number of UTF-16 code units of tokens lo..hi of str.
RECURSIVE UnitCount(_, _, _)
UnitCount(str, lo, hi) ==
    IF lo > hi THEN 0
    ELSE IF lo = hi THEN TokLen[str[lo]]
    ELSE LET mid == (lo + hi) \div 2
         IN  UnitCount(str, lo, mid) + UnitCount(str, mid + 1, hi)

StrLength(str) == UnitCount(str, 1, Len(str))

Includes(str, marker) == \E i \in 1..Len(str) : str[i] = marker

\* --------------------------------------------------------------- hashString
\* A signed 32-bit integer from a high part and a low part (x = hi*2^16 + lo),
\* wrapped the way JavaScript's ToInt32 wraps.
ToInt32(hi, lo) ==
    LET l == lo % 65536
        h == (hi + (lo \div 65536)) % 65536
    IN  (IF h >= 32768 THEN h - 65536 ELSE h) * 65536 + l

Shl5(h) == ToInt32((h \div 65536) * 32, (h % 65536) * 32)

\* HashStep without the shift: hash = hash + str.charCodeAt(i).
HashStepSum(hash, c) == ToInt32(hash \div 65536, (hash % 65536) + c)

HashStep(hash, c) ==
    LET s == Shl5(hash)
    IN  ToInt32((s \div 65536) - (hash \div 65536), (s % 65536) - (hash % 65536) + c)

RECURSIVE Units(_)
Units(str) == IF str = <<>> THEN <<>> ELSE Codes[Head(str)] \o Units(Tail(str))

\* The loop of hashString over units[lo..hi], hash being its value before
\* units[lo].  The iterations run left to right as in the code; the range is
\* halved, and h1 tested, only to keep TLC's evaluation stack shallow.
RECURSIVE HashLoop(_, _, _, _)
HashLoop(units, lo, hi, hash) ==
    IF lo > hi THEN hash
    ELSE IF lo = hi THEN HashStep(hash, units[lo])
    ELSE LET mid == (lo + hi) \div 2
             h1 == HashLoop(units, lo, mid, hash)
         IN  IF h1 = h1 THEN HashLoop(units, mid + 1, hi, h1) ELSE 0

hashString(str) == LET units == Units(str) IN HashLoop(units, 1, Len(units), 0)

\* ---------------------------------------------------------------- payloads
PromptMarker == "Race another championship? (y/n):"
SynthPrompt == <<"<nl><nl><flag> ", PromptMarker, " ">>
NotConnectedLine == <<"<x> Not connected to backend<nl>">>
NotReadyLine == <<"<x> WebSocket connection not ready<nl>">>

PlainA == <<"Aa">>
PlainB == <<"BB">>
RaceEnd1 == <<"<trophy>", " ", "VICTORY!">>
RaceEnd2 == <<"<trophy>", " ", "WINS!">>
ServerPrompt == <<PromptMarker>>
LightsOut == <<"F1 PROFESSIONAL CHAMPIONSHIP RACE - LIGHTS OUT!">>
RocketBanner == <<"<rocket>x35">>
InitBanner == <<"<rocket> Initializing F1 Professional Simulator...">>
Circuits == <<"Available F1 Circuits:">>
TrackSelection == <<"<flag> TRACK & WEATHER SELECTION">>
Lap(k) == <<"Lap ", LapTok(k)>>

\* The data strings the server sends in the main model.
Datas ==
    {PlainA, RaceEnd1, RaceEnd2, ServerPrompt, LightsOut, RocketBanner,
     InitBanner}

\* A message event: kind "json" is text that JSON.parse turns into an object
\* with the fields type and data; kind "raw" is text JSON.parse rejects, in
\* which case data is the text itself.
OutMsg(d) == [kind |-> "json", type |-> "output", data |-> d]
ErrMsg(d) == [kind |-> "json", type |-> "error", data |-> d]
RawMsg(d) == [kind |-> "raw", type |-> "", data |-> d]
NoMsg == [kind |-> "none", type |-> "", data |-> <<>>]

\* Texts that JSON.parse accepts but the handler does not expect; for these
\* kinds data is the text of the event (event.data), as for kind "raw".
\*   null                        JSON.parse returns null
\*   {"type":"output"}           message.data is undefined
\*   {"type":"output","dauB":5}  the same, and the hash of the next text
\*   {"type":"output","data":5}  message.data is a number
NullText == <<"null">>
NoDataText == <<"{type:output}">>
NoDataText2 == <<"{type:output,dauB:5}">>
NumDataText == <<"{type:output,data:5}">>
NullMsg == [kind |-> "null", type |-> "", data |-> NullText]
NoDataMsg(text) == [kind |-> "nodata", type |-> "output", data |-> text]
NumDataMsg(text) == [kind |-> "numdata", type |-> "output", data |-> text]

\* The message events of the connection model (Spec) and of the stream
\* model (SpecStream).
Messages == {OutMsg(PlainA), ErrMsg(PlainA), RawMsg(PlainA)}
StreamMessages == {OutMsg(d) : d \in Datas}

\* What the user types into the input field.
Inputs == {<<" ">>, <<" ", "1", " ">>}

\* The data strings of the hash model: every string of at most MaxHashLen
\* fragments, the empty string included.  The fragments are ASCII text of two
\* and of eight code units, and a surrogate pair.
HashTokens == {"Aa", "<trophy>", "VICTORY!"}
RECURSIVE StringsUpTo(_)
StringsUpTo(n) ==
    IF n = 0 THEN {<<>>}
    ELSE LET shorter == StringsUpTo(n - 1)
         IN  shorter \cup {Append(str, t) : str \in shorter, t \in HashTokens}

HashDatas == StringsUpTo(MaxHashLen)

\* hashString of every data string of the model, computed once.
AllDatas ==
    Datas \cup {PlainB, Circuits, TrackSelection} \cup {Lap(k) : k \in 1..MaxLap}
    \cup {NullText, NoDataText, NoDataText2, NumDataText} \cup HashDatas
HashOf == [d \in AllDatas |-> hashString(d)]

\* ------------------------------------------------------------------- state
VARIABLES
    output,           \* useState(''): the transcript
    input,            \* useState(''): the input field
    connected,        \* useState(false)
    loading,          \* useState(true)
    renderColdStart,  \* useState(true)
    messageHashes,    \* useState(new Set()): the dedup window, insertion order
    lastMessageTime,  \* useState(0)
    wsRef,            \* wsRef.current: 0 is null, else an index of socks
    socks,            \* every WebSocket created so far
    life,             \* "init" (constructed), "mounted", "unmounted"
    now,              \* Date.now() at the latest message event
    sent,             \* the messages put on sockets by ws.send
    inserted,         \* history: the hashes put into the window, in order
    nmsgs,            \* history: message events delivered
    ev                \* history: what the last step did, if it was a message
                      \* event or a sendInput call

vars ==
    <<output, input, connected, loading, renderColdStart, messageHashes,
      lastMessageTime, wsRef, socks, life, now, sent, inserted, nmsgs, ev>>

reactState ==
    <<output, input, connected, loading, renderColdStart, messageHashes,
      lastMessageTime>>

Event(op, s, m, res, h, pd, code) ==
    [op |-> op, sock |-> s, msg |-> m, res |-> res, hash |-> h,
     processed |-> pd, code |-> code]

\* ev when the last step was neither a message event nor a sendInput call.
Idle == Event("", 0, NoMsg, "", 0, <<>>, 0)

Init ==
    /\ output = <<>>
    /\ input = <<>>
    /\ connected = FALSE
    /\ loading = TRUE
    /\ renderColdStart = TRUE
    /\ messageHashes = <<>>
    /\ lastMessageTime = 0
    /\ wsRef = 0
    /\ socks = <<>>
    /\ life = "init"
    /\ now = StartTime
    /\ sent = <<>>
    /\ inserted = <<>>
    /\ nmsgs = 0
    /\ ev = Idle

\* ----------------------------------------------------------------- sockets
\* Whether the component's state can still change: React ignores the setters
\* of a component it has unmounted.
Alive == life # "unmounted"

\* The values a handler set closes over: the state of the calling render.
Capture ==
    [lastMessageTime |-> lastMessageTime, messageHashes |-> messageHashes,
     output |-> output]

\* seen, texts, last and cleaned are history: the hashes this connection's
\* messages put into the window, the payloads it admitted to the transcript,
\* the time of its last message that passed the pacing gate (0 if none), and
\* whether the cleanup of the mount effect has been applied to it.
NewSocket(cap) ==
    [readyState |-> "CONNECTING", handlers |-> TRUE, failing |-> FALSE,
     code |-> 0, cap |-> cap, seen |-> {}, texts |-> {}, last |-> 0,
     cleaned |-> FALSE]

\* ws.close(): an open socket starts the closing handshake (with no code of
\* its own: the close event carries 1005); a connecting one is failed, which
\* ends in an error event and a close event; otherwise nothing happens.
CloseCall(sk) ==
    IF sk.readyState = "OPEN"
    THEN [sk EXCEPT !.readyState = "CLOSING", !.code = 1005]
    ELSE IF sk.readyState = "CONNECTING"
    THEN [sk EXCEPT !.readyState = "CLOSING", !.failing = TRUE]
    ELSE sk

\* connectToBackend called from a render whose state is cap: the socks and
\* wsRef it leaves.  (It also calls setLoading(true).)
connectToBackend(cap) ==
    /\ Len(socks) < MaxSockets
    /\ socks' = Append(IF wsRef # 0
                       THEN [socks EXCEPT ![wsRef] = CloseCall(@)]
                       ELSE socks,
                       NewSocket(cap))
    /\ wsRef' = Len(socks) + 1

\* Detach closing the socket with its four handlers left in place.
DetachCloseOnly(sk) == [CloseCall(sk) EXCEPT !.cleaned = TRUE]

\* The cleanup of the mount effect, applied to the socket wsRef points to:
\* its handlers are removed and it is closed.
Detach(sk) == [CloseCall(sk) EXCEPT !.handlers = FALSE, !.cleaned = TRUE]

\* useEffect(() => { connectToBackend(); ... }, []).  Under React.StrictMode
\* (development build) the effect runs, is cleaned up and runs again within
\* the first commit, the state untouched: two sockets, the first detached.
\* Elsewhere (strict = FALSE) it runs once.
Mount(strict) ==
    /\ life = "init"
    /\ Len(socks) + (IF strict THEN 2 ELSE 1) <= MaxSockets
    /\ socks' = IF strict
                THEN <<Detach(NewSocket(Capture)), NewSocket(Capture)>>
                ELSE <<NewSocket(Capture)>>
    /\ wsRef' = Len(socks')
    /\ loading' = TRUE
    /\ life' = "mounted"
    /\ ev' = Idle
    /\ UNCHANGED <<output, input, connected, renderColdStart, messageHashes,
                   lastMessageTime, now, sent, inserted, nmsgs>>

\* The cleanup of the mount effect when the component is unmounted.
Cleanup ==
    /\ life = "mounted"
    /\ socks' = IF wsRef # 0 THEN [socks EXCEPT ![wsRef] = Detach(@)] ELSE socks
    /\ wsRef' = 0
    /\ life' = "unmounted"
    /\ ev' = Idle
    /\ UNCHANGED <<reactState, now, sent, inserted, nmsgs>>

\* ws.onopen
SockOpen(s) ==
    /\ socks[s].readyState = "CONNECTING"
    /\ socks' = [socks EXCEPT ![s].readyState = "OPEN"]
    /\ IF socks[s].handlers /\ Alive
       THEN connected' = TRUE /\ loading' = FALSE
       ELSE UNCHANGED <<connected, loading>>
    /\ ev' = Idle
    /\ UNCHANGED <<output, input, renderColdStart, messageHashes,
                   lastMessageTime, wsRef, life, now, sent, inserted, nmsgs>>

\* The connection fails (the network, or close() on a connecting socket): the
\* browser sets readyState to CLOSED and fires error and then close (1006) in
\* one task, so ws.onerror and ws.onclose run back to back.
SockFail(s) ==
    /\ socks[s].readyState \in
          (IF socks[s].failing THEN {"CLOSING"} ELSE {"CONNECTING", "OPEN"})
    /\ socks' = [socks EXCEPT ![s].readyState = "CLOSED", ![s].code = 1006]
    /\ IF socks[s].handlers /\ Alive
       THEN connected' = FALSE /\ loading' = FALSE
       ELSE UNCHANGED <<connected, loading>>
    /\ ev' = Idle
    /\ UNCHANGED <<output, input, renderColdStart, messageHashes,
                   lastMessageTime, wsRef, life, now, sent, inserted, nmsgs>>

\* The server starts the closing handshake with the given code (1000 is the
\* normal closure, 1011 a server error): readyState becomes CLOSING, no
\* handler runs yet.
CloseCodes == {1000, 1011}

ServerClose(s, code) ==
    /\ socks[s].readyState = "OPEN"
    /\ socks' = [socks EXCEPT ![s].readyState = "CLOSING", ![s].code = code]
    /\ ev' = Idle
    /\ UNCHANGED <<reactState, wsRef, life, now, sent, inserted, nmsgs>>

\* ws.onclose at the end of a closing handshake; event.code is not read.
SockClose(s) ==
    /\ socks[s].readyState = "CLOSING"
    /\ ~socks[s].failing
    /\ socks' = [socks EXCEPT ![s].readyState = "CLOSED"]
    /\ IF socks[s].handlers /\ Alive
       THEN connected' = FALSE /\ loading' = FALSE
       ELSE UNCHANGED <<connected, loading>>
    /\ ev' = Idle
    /\ UNCHANGED <<output, input, renderColdStart, messageHashes,
                   lastMessageTime, wsRef, life, now, sent, inserted, nmsgs>>

\* -------------------------------------------------------------- ws.onmessage
Has(set, h) == \E i \in 1..Len(set) : set[i] = h

\* if (currentTime - lastMessageTime < 50) return;
PacingDrop(capTime, currentTime) == currentTime - capTime < MinInterval

\* The updater of the output path: add, and above the cap keep the last 50.
InsertTrim(prev, h) ==
    LET newHashes == IF Has(prev, h) THEN prev ELSE Append(prev, h)
    IN  IF Len(newHashes) > WindowCap
        THEN SubSeq(newHashes, Len(newHashes) - TrimKeep + 1, Len(newHashes))
        ELSE newHashes

\* The updater of the catch branch: new Set([...prev, messageHash]).
RawInsert(prev, h) == IF Has(prev, h) THEN prev ELSE Append(prev, h)

\* setMessageHashes(new Set([messageHash]))
ResetWindow(h) == <<h>>

IsRaceEnd(data) ==
    /\ Includes(data, "<trophy>")
    /\ \E w \in {"VICTORY!", "WINS!", "CHAMPION!"} : Includes(data, w)

ProcessedData(data, capOut) ==
    IF IsRaceEnd(data) /\ ~Includes(capOut, PromptMarker)
    THEN data \o SynthPrompt
    ELSE data

ShouldClear(data, capOut) ==
    \E i \in 1..5 :
        CASE i = 1 -> Includes(data, "F1 PROFESSIONAL CHAMPIONSHIP RACE - LIGHTS OUT!")
          [] i = 2 -> Includes(data, "<rocket>x35")
          [] i = 3 -> Includes(data, "<flag> TRACK & WEATHER SELECTION")
          [] i = 4 -> Includes(data, "Available F1 Circuits:")
          [] i = 5 -> /\ Includes(data, "<rocket> Initializing F1 Professional Simulator...")
                      /\ StrLength(capOut) > ClearMinLen

\* NextOutput with the boundary branch appending like the other branch.
NextOutputAppendOnly(clear, prev, pd) == prev \o pd

\* NextOutput replacing the transcript in both branches.
NextOutputReplace(clear, prev, pd) == pd

\* setOutput(processedData) against setOutput(prev => prev + processedData)
NextOutput(clear, prev, pd) == IF clear THEN pd ELSE prev \o pd

\* The window after an admitted output message: the insert/trim updater is
\* queued first, and for a boundary event the reset is queued after it.
NextWindow(clear, prev, h) ==
    IF clear THEN ResetWindow(h) ELSE InsertTrim(prev, h)

\* What one run of the handler leaves, for the message m arriving at time t
\* on a socket whose handler closed over cap.  The state setters of one run
\* are applied together; updaters see the current state, the tests of the
\* handler see cap.
Outcome(res, out, hashes, ins, h, pd, accepted, t) ==
    [res |-> res, output |-> out, messageHashes |-> hashes, inserted |-> ins,
     hash |-> h, processed |-> pd,
     lastMessageTime |-> IF accepted THEN t ELSE lastMessageTime,
     renderColdStart |-> IF accepted THEN FALSE ELSE renderColdStart]

\* console.log('Skipping duplicate message'); return;  and, in the catch
\* branch, the if that does nothing for a known hash.
Suppress(h, t) ==
    Outcome("duplicate", output, messageHashes, inserted, h, <<>>, TRUE, t)

\* Whether the try block throws before it has called any setter: JSON.parse on
\* text that is not JSON, message.type on null, str.length in hashString on
\* an undefined data.  The catch branch then runs on event.data.
Throws(m) == m.kind \in {"raw", "null", "nodata"}

\* An output message whose data is a number: hashString(data) is 0
\* (data.length is undefined, so its loop does not run); unless the captured
\* window holds 0 the insert/trim updater is queued for it, then
\* data.includes throws and the catch branch runs on event.data.
NumberData(cap, m, t) ==
    IF Has(cap.messageHashes, 0)
    THEN Suppress(0, t)
    ELSE LET w == InsertTrim(messageHashes, 0)
             ins0 == IF Has(messageHashes, 0) THEN inserted ELSE Append(inserted, 0)
             h == HashOf[m.data]
         IN  IF Has(cap.messageHashes, h)
             THEN Outcome("duplicate", output, w, ins0, h, <<>>, TRUE, t)
             ELSE Outcome("opaque", output \o m.data, RawInsert(w, h),
                          IF Has(w, h) THEN ins0 ELSE Append(ins0, h),
                          h, m.data, TRUE, t)

onmessage(cap, m, t) ==
    IF PacingDrop(cap.lastMessageTime, t)
    THEN Outcome("dropped", output, messageHashes, inserted, 0, <<>>, FALSE, t)
    ELSE IF m.kind = "json" /\ m.type # "output"
    THEN Outcome("ignored", output, messageHashes, inserted, 0, <<>>, TRUE, t)
    ELSE IF m.kind = "numdata"
    THEN NumberData(cap, m, t)
    ELSE LET h == HashOf[m.data]
             ins == IF Has(messageHashes, h) THEN inserted ELSE Append(inserted, h)
         IN  IF Has(cap.messageHashes, h)
             THEN Suppress(h, t)
             ELSE IF Throws(m)
             THEN Outcome("opaque", output \o m.data, RawInsert(messageHashes, h),
                          ins, h, m.data, TRUE, t)
             ELSE LET pd == ProcessedData(m.data, cap.output)
                      clear == ShouldClear(m.data, cap.output)
                  IN  Outcome(IF clear THEN "cleared" ELSE "appended",
                              NextOutput(clear, output, pd),
                              NextWindow(clear, messageHashes, h),
                              IF clear THEN Append(inserted, h) ELSE ins,
                              h, pd, TRUE, t)

\* A message event on socket s, d ms after the previous message event; r is
\* what the one run of the handler leaves.
OnMessage(s, m, d) ==
    /\ life = "mounted"
    /\ socks[s].readyState = "OPEN"
    /\ socks[s].handlers
    /\ \E r \in {onmessage(socks[s].cap, m, now + d)} :
           /\ output' = r.output
           /\ messageHashes' = r.messageHashes
           /\ lastMessageTime' = r.lastMessageTime
           /\ renderColdStart' = r.renderColdStart
           /\ inserted' = r.inserted
           /\ ev' = Event("message", s, m, r.res, r.hash, r.processed, 0)
           /\ socks' = [socks EXCEPT
                  ![s].seen = IF r.res \in {"appended", "cleared", "opaque"}
                              THEN @ \cup {r.hash} ELSE @,
                  ![s].texts = IF r.res \in {"appended", "cleared", "opaque"}
                               THEN @ \cup {m.data} ELSE @,
                  ![s].last = IF r.res # "dropped" THEN now + d ELSE @]
    /\ now' = now + d
    /\ nmsgs' = nmsgs + 1
    /\ UNCHANGED <<input, connected, loading, wsRef, life, sent>>

\* ------------------------------------------------------------ user interface
\* The input field and the send button exist only in this rendering.
PromptRendered == connected /\ ~renderColdStart

IsSpace(tok) == tok \in {" ", "<nl>"}

RECURSIVE TrimStart(_)
TrimStart(str) ==
    IF str # <<>> /\ IsSpace(Head(str)) THEN TrimStart(Tail(str)) ELSE str

RECURSIVE TrimEnd(_)
TrimEnd(str) ==
    IF str # <<>> /\ IsSpace(str[Len(str)])
    THEN TrimEnd(SubSeq(str, 1, Len(str) - 1))
    ELSE str

Trim(str) == TrimEnd(TrimStart(str))

EchoLine(str) == <<"> ">> \o Trim(str) \o <<"<nl>">>

\* InputMsg sending the input as typed, without trim().
InputMsgUntrimmed(s, str) == [sock |-> s, type |-> "input", data |-> str]

\* JSON.stringify({ type: 'input', data: input.trim() }), sent on socket s.
InputMsg(s, str) == [sock |-> s, type |-> "input", data |-> Trim(str)]

\* onChange of the input field
TypeInput(text) ==
    /\ life = "mounted"
    /\ PromptRendered
    /\ input # text
    /\ input' = text
    /\ ev' = Idle
    /\ UNCHANGED <<output, connected, loading, renderColdStart, messageHashes,
                   lastMessageTime, wsRef, socks, life, now, sent, inserted, nmsgs>>

\* SendBranch without the readyState test of line 172.
SendBranchNoReadyTest ==
    IF ~connected THEN "notconnected"
    ELSE IF input = <<>> \/ Trim(input) = <<>> THEN "blank"
    ELSE IF wsRef = 0 THEN "notready"
    ELSE "sent"

\* Which return of sendInput is taken.  send() cannot throw on a socket whose
\* readyState is OPEN, so the catch branch is not among them.
SendBranch ==
    IF ~connected THEN "notconnected"
    ELSE IF input = <<>> \/ Trim(input) = <<>> THEN "blank"
    ELSE IF wsRef = 0 \/ socks[wsRef].readyState # "OPEN" THEN "notready"
    ELSE "sent"

\* sendInput, reached from the Enter key or the send button of the prompt.
sendInput ==
    /\ life = "mounted"
    /\ PromptRendered
    /\ LET b == SendBranch
       IN  /\ output' = CASE b = "notconnected" -> output \o NotConnectedLine
                          [] b = "notready" -> output \o NotReadyLine
                          [] b = "sent" -> output \o EchoLine(input)
                          [] OTHER -> output
           /\ IF b = "notready"
              THEN connectToBackend(Capture) /\ loading' = TRUE
              ELSE UNCHANGED <<socks, wsRef, loading>>
           /\ IF b = "sent"
              THEN /\ Len(sent) < MaxSends
                   /\ sent' = Append(sent, InputMsg(wsRef, input))
                   /\ input' = <<>>
              ELSE UNCHANGED <<sent, input>>
           /\ ev' = Event("sendInput", wsRef, NoMsg, b, 0, input, 0)
    /\ UNCHANGED <<connected, renderColdStart, messageHashes, lastMessageTime,
                   life, now, inserted, nmsgs>>

\* The Reset button.
handleReconnect ==
    /\ life = "mounted"
    /\ output' = <<>>
    /\ messageHashes' = <<>>
    /\ connected' = FALSE
    /\ loading' = TRUE
    /\ renderColdStart' = TRUE
    /\ connectToBackend(Capture)
    /\ ev' = Idle
    /\ UNCHANGED <<input, lastMessageTime, life, now, sent, inserted, nmsgs>>

\* ----------------------------------------------------------- specification
Deliver ==
    \E s \in DOMAIN socks, m \in Messages, d \in SlowDeltas :
        nmsgs < MaxMsgs /\ OnMessage(s, m, d)

\* The connection model: every operation, few kinds of message.
Next ==
    \/ \E strict \in BOOLEAN : Mount(strict)
    \/ \E s \in DOMAIN socks : SockOpen(s)
    \/ \E s \in DOMAIN socks : SockFail(s)
    \/ \E s \in DOMAIN socks, code \in CloseCodes : ServerClose(s, code)
    \/ \E s \in DOMAIN socks : SockClose(s)
    \/ Deliver
    \/ \E text \in Inputs : TypeInput(text)
    \/ sendInput
    \/ handleReconnect

Spec == Init /\ [][Next]_vars

\* The stream model: connections that open and are reset by the user, and
\* every kind of narration.
DeliverStream ==
    \E s \in DOMAIN socks, m \in StreamMessages, d \in Deltas :
        nmsgs < StreamMsgs /\ OnMessage(s, m, d)

NextStream ==
    \/ Mount(FALSE)
    \/ \E s \in DOMAIN socks : SockOpen(s)
    \/ DeliverStream
    \/ handleReconnect

SpecStream == Init /\ [][NextStream]_vars

\* The fill model: a connection that has received FillStart laps, one every
\* MinInterval ms, and so has an almost full dedup window; then any of a new
\* lap, an old lap or a menu or banner, as an output message or as raw text,
\* and a reset by the user.
LapsText(n) == [i \in 1..(2 * n) |-> Lap((i + 1) \div 2)[2 - (i % 2)]]
LapsHashes(n) == [k \in 1..n |-> HashOf[Lap(k)]]

InitFill ==
    /\ output = LapsText(FillStart)
    /\ input = <<>>
    /\ connected = TRUE
    /\ loading = FALSE
    /\ renderColdStart = FALSE
    /\ messageHashes = LapsHashes(FillStart)
    /\ lastMessageTime = StartTime + MinInterval * FillStart
    /\ wsRef = 1
    /\ socks = <<[NewSocket([lastMessageTime |-> 0, messageHashes |-> <<>>,
                             output |-> <<>>])
                  EXCEPT !.readyState = "OPEN",
                         !.seen = {HashOf[Lap(k)] : k \in 1..FillStart},
                         !.texts = {Lap(k) : k \in 1..FillStart},
                         !.last = StartTime + MinInterval * FillStart]>>
    /\ life = "mounted"
    /\ now = StartTime + MinInterval * FillStart
    /\ sent = <<>>
    /\ inserted = LapsHashes(FillStart)
    /\ nmsgs = FillStart
    /\ ev = Event("message", 1, OutMsg(Lap(FillStart)), "appended",
                  HashOf[Lap(FillStart)], Lap(FillStart), 0)

FillDatas == {Lap(nmsgs + 1), Lap(1), Lap(TrimKeep + 1)}
FillMessages ==
    {OutMsg(d) : d \in FillDatas \cup {LightsOut, Circuits, TrackSelection}}
    \cup {RawMsg(d) : d \in FillDatas}

DeliverFill ==
    \E s \in DOMAIN socks, m \in FillMessages, d \in SlowDeltas :
        nmsgs < FillStart + FillMsgs /\ OnMessage(s, m, d)

NextFill ==
    \/ DeliverFill
    \/ handleReconnect
    \/ \E s \in DOMAIN socks : SockOpen(s)

SpecFill == InitFill /\ [][NextFill]_vars

\* The run that leads to the start of the fill model: mount, open, and the
\* laps one by one.
DeliverLaps ==
    \E s \in DOMAIN socks :
        nmsgs < FillStart /\ OnMessage(s, OutMsg(Lap(nmsgs + 1)), MinInterval)

NextLaps ==
    \/ Mount(FALSE)
    \/ \E s \in DOMAIN socks : SockOpen(s)
    \/ DeliverLaps

SpecLaps == Init /\ [][NextLaps]_vars

\* The session model: one user session on connections that stay up, with
\* two lines of narration, a race end, a race start, commands, and resets by
\* the user.
SessionMessages ==
    {OutMsg(PlainA), OutMsg(PlainB), OutMsg(RaceEnd1), OutMsg(LightsOut)}

DeliverSession ==
    \E s \in DOMAIN socks, m \in SessionMessages, d \in SlowDeltas :
        nmsgs < MaxMsgs /\ OnMessage(s, m, d)

NextSession ==
    \/ Mount(FALSE)
    \/ \E s \in DOMAIN socks : SockOpen(s)
    \/ DeliverSession
    \/ \E text \in Inputs : TypeInput(text)
    \/ sendInput
    \/ handleReconnect

SpecSession == Init /\ [][NextSession]_vars

\* The protocol model: connections that open and are reset by the user, and
\* every kind of text a message event can carry.
ProtocolMessages ==
    {OutMsg(PlainA), RawMsg(PlainA), NullMsg, NoDataMsg(NoDataText),
     NoDataMsg(NoDataText2), NumDataMsg(NumDataText)}

DeliverProtocol ==
    \E s \in DOMAIN socks, m \in ProtocolMessages, d \in SlowDeltas :
        nmsgs < MaxMsgs /\ OnMessage(s, m, d)

NextProtocol ==
    \/ Mount(FALSE)
    \/ \E s \in DOMAIN socks : SockOpen(s)
    \/ DeliverProtocol
    \/ handleReconnect

SpecProtocol == Init /\ [][NextProtocol]_vars

\* The teardown model: the component mounted with or without StrictMode, its
\* connections opened, failed, closed by the server and reset by the user,
\* messages, and the unmount.
DeliverTeardown ==
    \E s \in DOMAIN socks, m \in Messages, d \in SlowDeltas :
        nmsgs < MaxMsgs /\ OnMessage(s, m, d)

NextTeardown ==
    \/ \E strict \in BOOLEAN : Mount(strict)
    \/ Cleanup
    \/ \E s \in DOMAIN socks : SockOpen(s)
    \/ \E s \in DOMAIN socks : SockFail(s)
    \/ \E s \in DOMAIN socks, code \in CloseCodes : ServerClose(s, code)
    \/ \E s \in DOMAIN socks : SockClose(s)
    \/ DeliverTeardown
    \/ handleReconnect

SpecTeardown == Init /\ [][NextTeardown]_vars

\* The hash model: one connection that receives output messages with every
\* data string of HashDatas; the handler calls hashString on each.
DeliverHash ==
    \E s \in DOMAIN socks, d \in HashDatas :
        nmsgs < HashMsgs /\ OnMessage(s, OutMsg(d), MinInterval)

NextHash ==
    \/ Mount(FALSE)
    \/ \E s \in DOMAIN socks : SockOpen(s)
    \/ DeliverHash

SpecHash == Init /\ [][NextHash]_vars

\* ------------------------------------------------------------------ claims
\* A step that delivers a message event, described by ev'.
MsgStep == nmsgs' = nmsgs + 1
OutputStep ==
    MsgStep /\ ev'.msg.kind = "json" /\ ev'.msg.type = "output"

\* A step that is a sendInput call, described by ev'.
SendStep == ev'.op = "sendInput"

LastN(seq, n) ==
    IF Len(seq) <= n THEN seq ELSE SubSeq(seq, Len(seq) - n + 1, Len(seq))

EndsWith(str, suffix) ==
    /\ Len(str) >= Len(suffix)
    /\ SubSeq(str, Len(str) - Len(suffix) + 1, Len(str)) = suffix

\* C1: an output message that passes the pacing gate while the hash of its
\* data is in the dedup window (an identical payload was admitted before on
\* this connection, and no boundary reset or trim removed its hash since) is
\* suppressed: the transcript stays as it was.
C1_DuplicateSuppressed ==
    [][(OutputStep /\ ev'.res # "dropped"
            /\ Has(messageHashes, HashOf[ev'.msg.data]))
        => output' = output]_vars

\* C2: when the handler processes an output message (not dropped, not taken
\* for a duplicate) that it classifies as a boundary event, the transcript
\* after the step is that event's payload alone, with at most the synthesized
\* restart prompt after it, and the dedup window holds that event's hash alone.
C2_BoundaryEffect ==
    [][(OutputStep /\ ev'.res \notin {"dropped", "duplicate"}
            /\ ShouldClear(ev'.msg.data, socks[ev'.sock].cap.output))
        => /\ output' \in {ev'.msg.data, ev'.msg.data \o SynthPrompt}
           /\ output' = ev'.processed
           /\ messageHashes' = <<HashOf[ev'.msg.data]>>]_vars

\* A boundary event has replaced a transcript that held earlier payloads.
C2_Witness ==
    /\ ev.op = "message"
    /\ ev.res = "cleared"
    /\ Len(inserted) >= 3
    /\ output = ev.msg.data
    /\ messageHashes = <<ev.hash>>

\* The banners and menus that mark a boundary: the session-start banner, the
\* rocket line above it, the track and circuit menus, the race-start banner.
IsBoundaryEvent(data) ==
    \E marker \in {"F1 PROFESSIONAL CHAMPIONSHIP RACE - LIGHTS OUT!",
                   "<rocket>x35",
                   "<flag> TRACK & WEATHER SELECTION",
                   "Available F1 Circuits:",
                   "<rocket> Initializing F1 Professional Simulator..."} :
        Includes(data, marker)

\* C3: whenever a boundary event is received, whatever the transcript and the
\* dedup window hold, the transcript after the step starts fresh from that
\* event's payload.
C3_BoundaryTrigger ==
    [][(OutputStep /\ IsBoundaryEvent(ev'.msg.data))
        => output' \in {ev'.msg.data, ev'.msg.data \o SynthPrompt}]_vars

IsRaceEndToken(tok) == tok \in {"VICTORY!", "WINS!", "CHAMPION!"}

\* The restart prompts that follow the first race-end narration of str.
PromptsAfterRaceEnd(str) ==
    {i \in 1..Len(str) :
        /\ str[i] = PromptMarker
        /\ \E j \in 1..(i - 1) : IsRaceEndToken(str[j])}

\* C4: a transcript that shows race-end narration holds exactly one restart
\* prompt after it.  (A race start replaces the transcript, so one transcript
\* never holds the end of two races.)
C4_PromptExactlyOnce ==
    (\E j \in 1..Len(output) : IsRaceEndToken(output[j]))
        => Cardinality(PromptsAfterRaceEnd(output)) = 1

\* C5: a message event passes the pacing gate exactly when at least 50 ms have
\* passed since the last message that passed it, and a message that does not
\* pass leaves the transcript and the dedup window as they were.
C5_Pacing ==
    [][MsgStep
        => /\ (ev'.res # "dropped") <=> (now' - lastMessageTime >= MinInterval)
           /\ ev'.res = "dropped"
                => output' = output /\ messageHashes' = messageHashes]_vars

\* C6: the dedup window never holds more than 100 hashes.
C6_WindowBound == Len(messageHashes) <= WindowCap

\* C7: when a message step inserts a new hash into a window that already
\* holds 100 or more, so that the window exceeds 100 entries, the window after
\* the step is the 50 most recently inserted hashes, in insertion order, the
\* new hash last.  A boundary event is left to C2: its reset, queued after the
\* insert, leaves its own hash alone.
C7_TrimResult ==
    [][(MsgStep /\ ev'.res \in {"appended", "cleared", "opaque"}
            /\ ~Has(messageHashes, ev'.hash)
            /\ Len(messageHashes) >= WindowCap)
        => IF ev'.res = "cleared"
           THEN messageHashes' = <<ev'.hash>>
           ELSE /\ messageHashes' = LastN(inserted', TrimKeep)
                /\ Len(messageHashes') = TrimKeep
                /\ messageHashes'[TrimKeep] = ev'.hash]_vars

NotOpen == wsRef = 0 \/ socks[wsRef].readyState # "OPEN"

\* Every change of sent is one message, appended by a sendInput call on an
\* open socket while the connected flag is set, carrying the trimmed input.
SentOnlyBySendInput ==
    sent' # sent
        => /\ SendStep
           /\ connected /\ ~NotOpen
           /\ sent' = Append(sent, InputMsg(wsRef, input))

\* C8 as claimed: a sendInput call made while the connected flag is false or
\* the socket is not OPEN sends nothing and appends a rejection line, and no
\* message is put on a socket outside the sendInput call that accepted it.
C8_RejectedVisibly ==
    [][/\ (SendStep /\ (~connected \/ NotOpen))
            => /\ sent' = sent
               /\ output' \in {output \o NotConnectedLine, output \o NotReadyLine}
       /\ SentOnlyBySendInput]_vars

\* C8 as amended: the rejection line is appended when the flag is false or the
\* input is not blank; a blank input on a socket that is not OPEN changes
\* nothing.
C8_NoBuffering ==
    [][/\ (SendStep /\ (~connected \/ NotOpen))
            => /\ sent' = sent
               /\ input' = input
               /\ IF ~connected \/ Trim(input) # <<>>
                  THEN output' \in {output \o NotConnectedLine,
                                    output \o NotReadyLine}
                  ELSE output' = output
       /\ SentOnlyBySendInput]_vars

\* A command was rejected because the socket was not OPEN, and a new socket
\* was started without the command being sent on any socket.
C8_Witness ==
    /\ ev.op = "sendInput"
    /\ ev.res = "notready"
    /\ Trim(ev.processed) # <<>>
    /\ EndsWith(output, NotReadyLine)
    /\ sent = <<>>
    /\ input = ev.processed

ConnectionLostShown == ~renderColdStart /\ ~connected

CurrentClosed ==
    life = "mounted" /\ wsRef # 0 /\ socks[wsRef].readyState = "CLOSED"

\* C9: while the current socket is closed with a code other than 1000 (an
\* error included), the "Connection lost" banner is shown.
C9_AbnormalCloseSurfaced ==
    (CurrentClosed /\ socks[wsRef].code # 1000) => ConnectionLostShown

\* C10: while the current socket is closed with code 1000, the "Connection
\* lost" banner is not shown.
C10_NormalCloseDistinct ==
    (CurrentClosed /\ socks[wsRef].code = 1000) => ~ConnectionLostShown

\* C11: a message that is not JSON and passes the pacing gate is not rejected:
\* if its hash is in the dedup window it is suppressed (the transcript and the
\* window stay as they were), otherwise its raw text is appended to the
\* transcript and its hash is put into the window.
C11_MalformedInbound ==
    [][(MsgStep /\ ev'.msg.kind = "raw" /\ ev'.res # "dropped")
        => IF Has(messageHashes, HashOf[ev'.msg.data])
           THEN output' = output /\ messageHashes' = messageHashes
           ELSE /\ output' = output \o ev'.msg.data
                /\ Has(messageHashes', HashOf[ev'.msg.data])]_vars

IsPrefix(a, b) == Len(a) <= Len(b) /\ SubSeq(b, 1, Len(a)) = a

Contains(str, sub) ==
    \E i \in 1..(Len(str) - Len(sub) + 1) : SubSeq(str, i, i + Len(sub) - 1) = sub

\* What a step added at the end of the transcript (<<>> if it did not append).
Added == IF IsPrefix(output, output')
         THEN SubSeq(output', Len(output) + 1, Len(output'))
         ELSE <<>>

\* C12: when the transcript ends with the echo of the last command sent and
\* the server answers with an error-kind message, the transcript after the
\* step still holds the echoed line and, after it, the text of the error.
C12_RejectedCommandVisible ==
    [][(MsgStep /\ ev'.msg.kind = "json" /\ ev'.msg.type = "error"
            /\ ev'.res # "dropped"
            /\ sent # <<>>
            /\ EndsWith(output, <<"> ">> \o sent[Len(sent)].data \o <<"<nl>">>))
        => /\ IsPrefix(output, output')
           /\ Contains(Added, ev'.msg.data)]_vars

\* C13: a message of a connection is suppressed as a duplicate only if this
\* connection put its hash into the window, and is dropped by the pacing gate
\* only if a message of this connection passed the gate less than 50 ms
\* before: what an earlier connection recorded plays no part.
C13_PerConnectionState ==
    [][MsgStep
        => LET sk == socks[ev'.sock]
           IN  /\ ev'.res = "duplicate" => ev'.hash \in sk.seen
               /\ ev'.res = "dropped"
                    => sk.last # 0 /\ now' - sk.last < MinInterval]_vars

Blank(str) == \A i \in 1..Len(str) : IsSpace(str[i])

\* t is str without its leading and trailing whitespace, and is not empty.
IsTrimOf(t, str) ==
    /\ t # <<>>
    /\ ~IsSpace(t[1]) /\ ~IsSpace(t[Len(t)])
    /\ \E i \in 0..Len(str) :
           /\ i + Len(t) <= Len(str)
           /\ SubSeq(str, i + 1, i + Len(t)) = t
           /\ Blank(SubSeq(str, 1, i))
           /\ Blank(SubSeq(str, i + Len(t) + 1, Len(str)))

\* C14: a sendInput call made while connected, with an OPEN socket and an
\* input that is not blank, puts exactly one message of kind input on the
\* current socket, its data the input without leading and trailing whitespace
\* (not empty), appends "> <data>" and a newline to the transcript and clears
\* the input field; a call with a blank input sends nothing and leaves the
\* transcript as it was.
C14_InputSending ==
    [][SendStep
        => /\ (connected /\ ~NotOpen /\ ~Blank(input))
                => /\ Len(sent') = Len(sent) + 1
                   /\ SubSeq(sent', 1, Len(sent)) = sent
                   /\ LET msg == sent'[Len(sent')]
                      IN  /\ msg.type = "input"
                          /\ msg.sock = wsRef
                          /\ IsTrimOf(msg.data, input)
                          /\ output' = output \o <<"> ">> \o msg.data \o <<"<nl>">>
                   /\ input' = <<>>
           /\ Blank(input) => sent' = sent /\ output' = output]_vars

\* A command typed with blanks around it has been sent trimmed and echoed.
C14_Witness ==
    /\ ev.op = "sendInput"
    /\ ev.res = "sent"
    /\ ev.processed = <<" ", "1", " ">>
    /\ sent = <<[sock |-> wsRef, type |-> "input", data |-> <<"1">>]>>
    /\ EndsWith(output, <<"> ", "1", "<nl>">>)
    /\ input = <<>>

\* The results of the handler that admit a payload to the transcript.
Admitted(res) == res \in {"appended", "cleared", "opaque"}

\* C15: the last-accepted timestamp changes only in a message step that
\* admits a payload to the transcript; a message suppressed as a duplicate or
\* ignored for its kind leaves it as it was.
C15_PacingClock ==
    [][lastMessageTime' # lastMessageTime
        => MsgStep /\ Admitted(ev'.res)]_vars

\* C16: a step that suppresses a duplicate, whatever the kind of the message,
\* leaves the transcript and the dedup window exactly as they were.
C16_SilentSuppression ==
    [][(MsgStep /\ ev'.res = "duplicate")
        => output' = output /\ messageHashes' = messageHashes]_vars

\* A step that is a handleReconnect call: a socket is created after the mount
\* and outside sendInput.
ReconnectStep ==
    life = "mounted" /\ Len(socks') > Len(socks) /\ ev'.op # "sendInput"

\* C17: every step other than a message step that replaces the transcript (an
\* admitted boundary event) and a handleReconnect call keeps the old
\* transcript as a prefix of the new one, and a message step that admits a
\* payload without replacing adds exactly the payload, followed by the
\* synthesized restart prompt only if the payload is race-end narration.
C17_AppendOnly ==
    [][(~ReconnectStep /\ ~(MsgStep /\ ev'.res = "cleared"))
        => /\ IsPrefix(output, output')
           /\ (MsgStep /\ Admitted(ev'.res))
                => \/ Added = ev'.msg.data
                   \/ /\ IsRaceEnd(ev'.msg.data)
                      /\ Added = ev'.msg.data \o SynthPrompt]_vars

\* Race-end narration with its synthesized prompt, then the echo of a
\* command, in the order the events occurred.
C17_Witness ==
    /\ ev.op = "sendInput"
    /\ ev.res = "sent"
    /\ output = RaceEnd1 \o SynthPrompt \o <<"> ", "1", "<nl>">>

\* No socket has an event pending: none is connecting or closing.
Quiescent ==
    \A s \in DOMAIN socks : socks[s].readyState \in {"OPEN", "CLOSED"}

\* C18: once every pending open, error and close event has been delivered,
\* the connected flag is true exactly when the current socket is open.
C18_ConnectedTracksSocket ==
    (life = "mounted" /\ Quiescent)
        => (connected <=> (wsRef # 0 /\ socks[wsRef].readyState = "OPEN"))

\* The payloads admitted to the transcript so far, on any connection.
AdmittedTexts == UNION {socks[s].texts : s \in DOMAIN socks}

\* C19: a payload is suppressed as a duplicate only if a payload with the
\* same text was admitted earlier: two payloads with different text are never
\* taken for duplicates of each other.
C19_SuppressionImpliesIdentical ==
    [][(MsgStep /\ ev'.res = "duplicate")
        => ev'.msg.data \in AdmittedTexts]_vars

\* The text of a message event.  For an envelope with a type and a string
\* data it is written with symbolic tokens around the data; it is never
\* hashed.
EventData(m) ==
    IF m.kind = "json"
    THEN <<"{type:", m.type, ",data:">> \o m.data \o <<"}">>
    ELSE m.data

\* C20: a message whose text parses as JSON is never appended to the
\* transcript as that text: after a step that changes the transcript, the
\* transcript does not end with the text of the event.
C20_OnlyUnparseableOpaque ==
    [][(MsgStep /\ ev'.msg.kind # "raw" /\ output' # output)
        => ~EndsWith(output', EventData(ev'.msg))]_vars

\* The transcript, the dedup window, the pacing timestamp and the connection
\* flags.
SessionState ==
    <<output, messageHashes, lastMessageTime, connected, loading,
      renderColdStart>>

\* A step in which an event of socket s is delivered: its readyState moves on
\* an open, error or close event, or the step is a message event on it.  (The
\* close() calls of connectToBackend and of the cleanup come with a new socket
\* or with the unmount.)
SocketEvent(s) ==
    /\ Len(socks') = Len(socks)
    /\ life' = life
    /\ \/ socks'[s].readyState # socks[s].readyState
       \/ MsgStep /\ ev'.sock = s

\* C21: a socket the cleanup of the mount effect was applied to has been
\* closed (it is closing or closed, never connecting or open), the unmounted
\* component holds no socket, and no open, message, close or error event of
\* such a socket changes the transcript, the dedup window, the pacing
\* timestamp or the connection flags; the first socket of a StrictMode mount
\* is such a socket.
C21_TeardownFinal ==
    [][/\ \A s \in DOMAIN socks' :
              socks'[s].cleaned => socks'[s].readyState \in {"CLOSING", "CLOSED"}
       /\ life' = "unmounted"
              => wsRef' = 0 /\ (Len(socks) > 0 => socks'[Len(socks)].cleaned)
       /\ \A s \in DOMAIN socks :
              (socks[s].cleaned /\ SocketEvent(s)) => UNCHANGED SessionState]_vars

\* A StrictMode mount whose second socket opened and received narration, the
\* first socket's error and close events delivered after that; then the
\* unmount and the close event of the second socket: the flag and the
\* transcript are those the second socket left.
C21_Witness ==
    /\ life = "unmounted"
    /\ Len(socks) = 2
    /\ \A s \in {1, 2} : socks[s].cleaned /\ socks[s].readyState = "CLOSED"
    /\ socks[1].code = 1006
    /\ socks[2].code = 1005
    /\ connected
    /\ output = PlainA

\* 31 * h + c wrapped to a signed 32-bit integer, by long multiplication on
\* the two 16-bit halves of h.
Fold31Step(h, c) ==
    LET low == 31 * (h % 65536) + c
        u == (31 * (h \div 65536) + (low \div 65536)) % 65536
    IN  (IF u >= 32768 THEN u - 65536 ELSE u) * 65536 + (low % 65536)

\* The fold h := 31 * h + c over the first n code units, starting from 0.
RECURSIVE Fold31(_, _)
Fold31(units, n) ==
    IF n = 0 THEN 0
    ELSE CHOOSE r \in {Fold31Step(h, units[n]) : h \in {Fold31(units, n - 1)}} : TRUE

\* C22: the hash the handler computes for the data string of an output
\* message is the fold h := 31 * h + code(c), wrapped to signed 32 bits, over
\* the code units of the string starting from 0; it lies between -2^31 and
\* 2^31 - 1; it is 0 for the empty string; and the same string hashed in the
\* next message event gives the same hash.
C22_HashString ==
    [][(OutputStep /\ ev'.res \in {"appended", "cleared", "duplicate"})
        => LET units == Units(ev'.msg.data)
           IN  /\ ev'.hash = Fold31(units, Len(units))
               /\ ev'.hash = hashString(ev'.msg.data)
               /\ ev'.hash >= -2147483647 - 1
               /\ ev'.hash <= 2147483647
               /\ ev'.msg.data = <<>> => ev'.hash = 0
               /\ (ev.op = "message" /\ ev.msg.data = ev'.msg.data)
                    => ev'.hash = ev.hash]_vars

\* The string of a surrogate pair and eight ASCII characters was hashed in
\* two message events in a row: the fold has wrapped below zero, and the
\* window holds the one hash.
C22_Witness ==
    /\ ev.op = "message"
    /\ ev.msg.data = <<"<trophy>", "VICTORY!">>
    /\ ev.hash = -189928071
    /\ nmsgs >= 2
    /\ messageHashes = <<-189928071>>

====
